---- MODULE Spec2Model ----
(***************************************************************************)
(* A model of the self-update agent of AutoDeploymentLib-Go                *)
(* (src/updater.go): the Updater's Start/Stop operations, the background   *)
(* loop with its ticker and stop channel, and checkAndUpdate, one action   *)
(* per system call or network call it makes on the three sibling paths     *)
(* (the executable, its .download staging file, its .bak backup file).     *)
(***************************************************************************)
EXTENDS Integers, Sequences, FiniteSets, TLC

\* ------------------------------------------------------------------ bounds
\* Start calls the host program may make in one run of the process.
MaxLoops == 2
\* Runs of the process (the first launch plus relaunches by the supervisor).
MaxLaunches == 2
\* Largest release timestamp the release endpoint answers with.
MaxTs == 2
\* Largest value the server clock endpoint answers with.
MaxServerTime == 2
\* Largest value of the local clock, time.Now().
MaxNow == 2
MaxStrLen == 3
MaxInterval == 1

\* ------------------------------------------------------- program constants
\* os.Chmod(selfPath, 0755): octal 0755.
ExecMode == 493
\* os.Create makes the file with mode 0666 before umask; with umask 022: 0644.
CreateMode == 420
DefaultInterval == 30

Loops == 1..MaxLoops
\* The uuid and key the host program passes to New.
IdValues == {"", "id"}
NowValues == 1..MaxNow
\* What GetServerTime can return: 0 on a transport or decode error, else the
\* decoded currentEpochMs, which the server may send non-positive.
ServerTimes == (-1)..MaxServerTime

\* ------------------------------------------------------------------ strings
\* Strings the code inspects are sequences of one-character strings.
ToLower(c) ==
  CASE c = "A" -> "a"
    [] c = "B" -> "b"
    [] c = "C" -> "c"
    [] c = "D" -> "d"
    [] OTHER -> c

\* strings.EqualFold on ASCII: equal after folding the case of every character.
EqualFold(s, t) ==
  /\ Len(s) = Len(t)
  /\ \A k \in 1..Len(s) : ToLower(s[k]) = ToLower(t[k])

\* strings.Contains on token sequences.
Contains(body, pat) ==
  \E k \in 0..(Len(body) - Len(pat)) :
     \A j \in 1..Len(pat) : body[k + j] = pat[j]

\* -------------------------------------------------------------------- files
NoFile == [exists |-> FALSE, content |-> "", mode |-> 0, mtime |-> 0]
File(c, m, t) == [exists |-> TRUE, content |-> c, mode |-> m, mtime |-> t]

\* Bodies the download endpoint serves ("bad" stands for any body that is not
\* the release, a truncated copy included: io.Copy's error is ignored).
Bodies == {"v2", "bad"}

\* calculateSHA256: the lowercase hex digest of the file's bytes; SHA-256 is
\* modelled as an injective map from contents to lowercase hex strings.
Digest(c) ==
  CASE c = "v1" -> <<"a", "1">>
    [] c = "v2" -> <<"b", "2">>
    [] OTHER -> <<"d", "4">>

\* ------------------------------------------------------- release descriptor
NoRelease == [LastModifiedEpochMs |-> 0, DownloadURL |-> <<>>, SHA256 |-> <<>>]
ShaValues == {<<>>, <<"b", "2">>, <<"B", "2">>}
UrlValues == {<<>>, <<"/", "f">>}
ReleaseInfos ==
  [LastModifiedEpochMs : 0..MaxTs, DownloadURL : UrlValues, SHA256 : ShaValues]
\* What the release endpoint can answer: ok is FALSE for a transport error, a
\* status other than 200 or an undecodable body.
ReleaseResponses ==
  {[ok |-> FALSE, info |-> NoRelease]}
    \cup {[ok |-> TRUE, info |-> r] : r \in ReleaseInfos}

\* fetchReleaseInfo: the error result (TRUE) or not.
fetchReleaseInfoErr(resp) ==
  \/ ~resp.ok
  \/ resp.info.LastModifiedEpochMs <= 0
  \/ resp.info.DownloadURL = <<>>

\* Bodies the verify endpoint can answer, as token sequences; <<>> also stands
\* for a transport error, which verify answers with false.
OkTrue == <<"\"ok\"", ":", "true">>
OkSpaceTrue == <<"\"ok\"", ":", " ", "true">>
VerifyBodies ==
  { <<>>,
    <<"{", "\"ok\"", ":", "true", "}">>,
    <<"{", "\"ok\"", ":", " ", "true", "}">>,
    <<"{", "\"ok\"", ":", "false", "}">>,
    <<"{", "\"ok\"", " ", ":", "true", "}">> }

\* A verify that takes any answer for an affirmative one.
verify_AnyAnswer(body) == TRUE

\* verify: the substring test on the response body.
verify(body) == Contains(body, OkTrue) \/ Contains(body, OkSpaceTrue)

\* A SyncTime that takes a server time of 0 for an answer.
SyncTime_NonNegative(off, serverTime, now) ==
  IF serverTime >= 0 THEN serverTime - now ELSE off

\* SyncTime: the new offset from the old one, the server time and time.Now().
SyncTime(off, serverTime, now) ==
  IF serverTime > 0 THEN serverTime - now ELSE off

\* A staleness test that takes equal times for stale.
IsCurrent_Strict(mtime, off, ts) == mtime + off > ts

\* The staleness test of checkAndUpdate: TRUE when the binary is current.
IsCurrent(mtime, off, ts) == mtime + off >= ts

\* ------------------------------------------------------------------ strings
\* A URL or an API root is the sequence of its path segments and of the "/"
\* between them ("https://h/api" is <<"https:", "/", "/", "h", "/", "api">>):
\* no segment holds a "/", so the prefix and suffix tests below are those of
\* the character strings.
HasPrefix(s, prefix) ==
  Len(s) >= Len(prefix) /\ SubSeq(s, 1, Len(prefix)) = prefix
HasSuffix(s, suffix) ==
  Len(s) >= Len(suffix) /\ SubSeq(s, Len(s) - Len(suffix) + 1, Len(s)) = suffix
TrimSuffix(s, suffix) ==
  IF HasSuffix(s, suffix) THEN SubSeq(s, 1, Len(s) - Len(suffix)) ELSE s

Slash == <<"/">>
SlashApi == <<"/", "api">>
HttpScheme == <<"http:", "/", "/">>
HttpsScheme == <<"https:", "/", "/">>

\* New: apiRoot "https://api.insights-api.top/deployment/".
DefaultAPIRoot == <<"https:", "/", "/", "h", "/", "deployment", "/">>

\* The strings the host program and the server hand over.
Alphabet == {"/", "api", "https:"}
Strings == UNION {[1..n -> Alphabet] : n \in 0..MaxStrLen}
\* The locations handed to resolveURL: those strings and an "http://" one.
Locations == Strings \cup {HttpScheme \o <<"api">>}

\* SetAPIRoot: what it stores for an argument.
TrimmedRoot(apiRoot) == TrimSuffix(TrimSuffix(apiRoot, SlashApi), Slash)

\* A resolveURL that knows "http://" only.
resolveURL_HttpOnly(apiRoot, maybeRelative) ==
  IF HasPrefix(maybeRelative, HttpScheme)
    THEN maybeRelative
    ELSE apiRoot \o (IF ~HasPrefix(maybeRelative, Slash)
                       THEN Slash \o maybeRelative ELSE maybeRelative)

\* resolveURL, for the receiver's apiRoot.
resolveURL(apiRoot, maybeRelative) ==
  IF HasPrefix(maybeRelative, HttpScheme) \/ HasPrefix(maybeRelative, HttpsScheme)
    THEN maybeRelative
    ELSE apiRoot \o (IF ~HasPrefix(maybeRelative, Slash)
                       THEN Slash \o maybeRelative ELSE maybeRelative)

\* The polling intervals, in seconds: New's 30 * time.Second and what the
\* host program may pass to SetUpdateInterval.
Intervals == (-1)..MaxInterval

\* -------------------------------------------------------------------- state
VARIABLES
  proc,        \* "running", "exited" (os.Exit(0)) or "panicked"
  launches,    \* how many times the process was launched
  startLimit,  \* how many times the host program calls Start in one run
  projectUUID, \* Updater.projectUUID
  projectKey,  \* Updater.projectKey
  startErr,    \* whether the last Start returned an error
  nloops,      \* background loops spawned in this run
  running,     \* Updater.running
  stopClosed,  \* whether Updater.stopChan is closed
  serverTimeOffset, \* Updater.serverTimeOffset
  loops,       \* per loop goroutine: its position and the locals of its tick
  exe,         \* the file at selfPath
  tmp,         \* the file at selfPath + ".download"
  bak,         \* the file at selfPath + ".bak"
  tickAfterStop, \* history: a tick was entered after Stop had closed stopChan
  installed,   \* history: the descriptor of the last completed install
  apiRoot,     \* Updater.apiRoot
  updateInterval, \* Updater.updateInterval, in seconds
  timeQueried, \* history: a time query was sent in this run
  call         \* history: the last call of SetAPIRoot, SyncTime or resolveURL

vars == <<proc, launches, startLimit, projectUUID, projectKey, startErr, nloops, running, stopClosed,
          serverTimeOffset, loops, exe, tmp, bak, tickAfterStop, installed,
          apiRoot, updateInterval, timeQueried, call>>

updater == <<running, stopClosed, serverTimeOffset>>
files == <<exe, tmp, bak>>
host == <<proc, launches, startLimit, nloops>>
identity == <<projectUUID, projectKey>>
config == <<apiRoot, updateInterval>>
hist == <<tickAfterStop, installed, call>>

\* No call yet. op is the operation, arg its argument, was the value of the
\* field it read (the offset for SyncTime, the API root for resolveURL) and
\* result what it returned.
NoCall == [op |-> "none", arg |-> <<>>, was |-> <<>>, result |-> <<>>]

\* A loop that was not spawned. pc is the goroutine's position; tickC is
\* whether a tick is buffered in ticker.C; release, adjustedMtime and sha256Hash
\* are the locals of checkAndUpdate; got is the body the download wrote and
\* attest the body the verify endpoint answered; trace is the tick's history
\* of events; outcome is how the tick ended; entry is the
\* three files as they were when the tick began; answer is what the release
\* endpoint answered and downloadURL the local of that name; startInterval is
\* the interval as it was when Start spawned the loop.
NoAnswer == [ok |-> FALSE, info |-> NoRelease]
NoLoop ==
  [pc |-> "none", tickC |-> FALSE, release |-> NoRelease, sha256Hash |-> <<>>,
   adjustedMtime |-> 0, got |-> "", attest |-> <<>>, trace |-> <<>>,
   outcome |-> "none", answer |-> NoAnswer, downloadURL |-> <<>>,
   startInterval |-> 0,
   entry |-> <<NoFile, NoFile, NoFile>>]

Alive(i) == loops[i].pc \notin {"none", "returned", "exited", "crashed"}
InTick(i) ==
  loops[i].pc \in {"executable", "fetch", "stat", "rmtmp", "download", "hash",
                   "verify", "cleanup", "rmbak", "rename1", "rename2", "chmod",
                   "chtimes", "exit", "return"}
Has(i, ev) == \E k \in 1..Len(loops[i].trace) : loops[i].trace[k] = ev

Init ==
  /\ proc = "running"
  /\ launches = 1
  /\ startLimit = 1
  /\ projectUUID \in IdValues
  /\ projectKey \in IdValues
  /\ startErr = FALSE
  /\ nloops = 0
  /\ running = FALSE
  /\ stopClosed = FALSE
  /\ serverTimeOffset = 0
  /\ loops = [i \in Loops |-> NoLoop]
  /\ exe = File("v1", ExecMode, 1)
  /\ tmp = NoFile
  /\ bak = NoFile
  /\ tickAfterStop = FALSE
  /\ installed = NoRelease
  /\ apiRoot = DefaultAPIRoot
  /\ updateInterval = DefaultInterval
  /\ timeQueried = FALSE
  /\ call = NoCall

\* ----------------------------------------------------------- host operations
\* A Start that synchronizes the clock before it looks at the identity.
Start_SyncFirst ==
  /\ proc = "running"
  /\ nloops < startLimit
  /\ \E serverTime \in ServerTimes, now \in NowValues :
       serverTimeOffset' = SyncTime(serverTimeOffset, serverTime, now)
  /\ timeQueried' = TRUE
  /\ IF projectUUID = "" \/ projectKey = ""
       THEN /\ startErr' = TRUE
            /\ UNCHANGED <<nloops, running, stopClosed, loops>>
       ELSE /\ running' = TRUE
            /\ nloops' = nloops + 1
            /\ loops' = [loops EXCEPT ![nloops + 1] =
                             [NoLoop EXCEPT !.pc = "ticker",
                                            !.startInterval = updateInterval]]
            /\ startErr' = FALSE
            /\ UNCHANGED stopClosed
  /\ UNCHANGED <<proc, launches, startLimit, identity, config, files, hist>>

\* Start: the identity check, SyncTime, running = true, go u.loop().
Start ==
  /\ proc = "running"
  /\ nloops < startLimit
  /\ IF projectUUID = "" \/ projectKey = ""
       THEN /\ startErr' = TRUE
            /\ UNCHANGED <<nloops, updater, loops, timeQueried>>
       ELSE /\ \E serverTime \in ServerTimes, now \in NowValues :
                 serverTimeOffset' = SyncTime(serverTimeOffset, serverTime, now)
            /\ timeQueried' = TRUE
            /\ running' = TRUE
            /\ nloops' = nloops + 1
            /\ loops' = [loops EXCEPT ![nloops + 1] =
                             [NoLoop EXCEPT !.pc = "ticker",
                                            !.startInterval = updateInterval]]
            /\ startErr' = FALSE
            /\ UNCHANGED stopClosed
  /\ UNCHANGED <<proc, launches, startLimit, identity, config, files, hist>>

\* Stop: running = false, close(u.stopChan); closing a closed channel panics.
Stop ==
  /\ proc = "running"
  /\ running' = FALSE
  /\ IF stopClosed
       THEN proc' = "panicked" /\ UNCHANGED stopClosed
       ELSE stopClosed' = TRUE /\ UNCHANGED proc
  /\ UNCHANGED <<launches, startLimit, identity, config, startErr, nloops,
                 serverTimeOffset, timeQueried, loops, files, hist>>

\* The supervisor launches the executable again after it exited: a new
\* process, whose main calls New with the same identity.
Relaunch ==
  /\ proc = "exited"
  /\ launches < MaxLaunches
  /\ exe.exists /\ exe.mode = ExecMode
  /\ proc' = "running"
  /\ launches' = launches + 1
  /\ nloops' = 0
  /\ running' = FALSE
  /\ stopClosed' = FALSE
  /\ serverTimeOffset' = 0
  /\ startErr' = FALSE
  /\ loops' = [i \in Loops |-> NoLoop]
  /\ timeQueried' = FALSE
  /\ UNCHANGED <<startLimit, identity, config, files, hist>>

\* SetAPIRoot: the two TrimSuffix calls, in the code's order.
SetAPIRoot ==
  /\ proc = "running"
  /\ \E root \in Strings :
       /\ apiRoot' = TrimmedRoot(root)
       /\ call' = [NoCall EXCEPT !.op = "SetAPIRoot", !.arg = root]
  /\ UNCHANGED <<host, identity, updateInterval, startErr, updater, timeQueried,
                 loops, files, tickAfterStop, installed>>

\* SetUpdateInterval: the interval is stored as it is given.
SetUpdateInterval ==
  /\ proc = "running"
  /\ \E interval \in Intervals : updateInterval' = interval
  /\ UNCHANGED <<host, identity, apiRoot, startErr, updater, timeQueried, loops,
                 files, hist>>

\* The host program calls SyncTime itself: GetServerTime's answer (0 for a
\* failed query) and time.Now().
CallSyncTime ==
  /\ proc = "running"
  /\ \E serverTime \in ServerTimes, now \in NowValues :
       /\ serverTimeOffset' = SyncTime(serverTimeOffset, serverTime, now)
       /\ call' = [NoCall EXCEPT !.op = "SyncTime", !.arg = <<serverTime, now>>,
                                 !.was = <<serverTimeOffset>>]
  /\ timeQueried' = TRUE
  /\ UNCHANGED <<host, identity, config, startErr, running, stopClosed, loops,
                 files, tickAfterStop, installed>>

\* resolveURL applied to a location, with the API root as it is configured.
CallResolveURL ==
  /\ proc = "running"
  /\ \E location \in Locations :
       call' = [NoCall EXCEPT !.op = "resolveURL", !.arg = location, !.was = apiRoot,
                             !.result = resolveURL(apiRoot, location)]
  /\ UNCHANGED <<host, identity, config, startErr, updater, timeQueried, loops,
                 files, tickAfterStop, installed>>

\* ------------------------------------------------------------------ the loop
\* A goroutine that looks at the stop channel before every step of a tick.
Step_Cancellable(i, position) ==
  /\ proc = "running"
  /\ loops[i].pc = position
  /\ stopClosed => position \in {"ticker", "select"}

Step(i, position) == /\ proc = "running"
                     /\ loops[i].pc = position
LoopFrame == UNCHANGED <<host, identity, config, startErr, updater, timeQueried>>

\* loop: time.NewTicker(u.updateInterval), which panics for an interval that
\* is not positive; a panic in the goroutine ends the process.
NewTicker(i) ==
  /\ Step(i, "ticker")
  /\ IF updateInterval > 0
       THEN /\ loops' = [loops EXCEPT ![i].pc = "select", ![i].startInterval = 0]
            /\ UNCHANGED proc
       ELSE /\ loops' = [loops EXCEPT ![i].pc = "crashed"]
            /\ proc' = "panicked"
  /\ UNCHANGED <<launches, startLimit, nloops, identity, config, startErr,
                 updater, timeQueried, files, hist>>

\* The runtime's timer sends on ticker.C, a channel of capacity 1; a tick that
\* finds the buffer full is dropped. It fires whatever the loop is doing.
TimerFire(i) ==
  /\ proc = "running"
  /\ loops[i].pc \notin {"none", "ticker", "returned", "exited"}
  /\ ~loops[i].tickC
  /\ loops' = [loops EXCEPT ![i].tickC = TRUE]
  /\ LoopFrame /\ UNCHANGED <<files, hist>>

\* select, case <-ticker.C: u.checkAndUpdate(). With both cases ready the
\* runtime chooses either.
SelectTick(i) ==
  /\ Step(i, "select")
  /\ loops[i].tickC
  /\ loops' = [loops EXCEPT ![i] =
                 [NoLoop EXCEPT !.pc = "executable", !.entry = <<exe, tmp, bak>>]]
  /\ tickAfterStop' = (tickAfterStop \/ stopClosed)
  /\ LoopFrame /\ UNCHANGED <<files, installed, call>>

\* select, case <-u.stopChan: return (the deferred ticker.Stop()).
SelectStop(i) ==
  /\ Step(i, "select")
  /\ stopClosed
  /\ loops' = [loops EXCEPT ![i].pc = "returned", ![i].tickC = FALSE]
  /\ LoopFrame /\ UNCHANGED <<files, hist>>

\* ------------------------------------------------------------ checkAndUpdate
\* The tick returns with the given outcome.
Return(i, how) == [loops EXCEPT ![i].pc = "return", ![i].outcome = how]
\* The tick goes to os.Remove(tmpPath); return.
Abort(i, how, events) ==
  [loops EXCEPT ![i].pc = "cleanup", ![i].outcome = how,
                ![i].trace = loops[i].trace \o events]
Goto(i, position, events) ==
  [loops EXCEPT ![i].pc = position, ![i].trace = loops[i].trace \o events]

\* selfPath, err := os.Executable()
Executable(i) ==
  /\ Step(i, "executable")
  /\ \/ loops' = Goto(i, "fetch", <<>>)
     \/ loops' = Return(i, "noexe")
  /\ LoopFrame /\ UNCHANGED <<files, hist>>

\* A release query that goes on with a descriptor that has no digest.
Fetch_NoDigestCheck(i) ==
  /\ Step(i, "fetch")
  /\ \E resp \in ReleaseResponses :
       loops' =
         IF fetchReleaseInfoErr(resp)
           THEN [Return(i, "fetchfail") EXCEPT ![i].answer = resp]
           ELSE [Goto(i, "stat", <<"fetched">>) EXCEPT ![i].release = resp.info,
                                                       ![i].answer = resp]
  /\ LoopFrame /\ UNCHANGED <<files, hist>>

\* release, err := u.fetchReleaseInfo(); if release.SHA256 == "" { return }
Fetch(i) ==
  /\ Step(i, "fetch")
  /\ \E resp \in ReleaseResponses :
       loops' =
         IF fetchReleaseInfoErr(resp)
           THEN [Return(i, "fetchfail") EXCEPT ![i].answer = resp]
         ELSE IF resp.info.SHA256 = <<>>
           THEN [Return(i, "nodigest") EXCEPT ![i].release = resp.info,
                                              ![i].answer = resp]
           ELSE [Goto(i, "stat", <<"fetched">>) EXCEPT ![i].release = resp.info,
                                                       ![i].answer = resp]
  /\ LoopFrame /\ UNCHANGED <<files, hist>>

\* info, statErr := os.Stat(selfPath); the staleness test.
Stat(i) ==
  /\ Step(i, "stat")
  /\ \/ /\ exe.exists
        /\ LET adj == exe.mtime + serverTimeOffset
               at == [loops EXCEPT ![i].adjustedMtime = adj,
                                   ![i].trace = loops[i].trace \o <<"stat">>]
           IN loops' =
                IF IsCurrent(exe.mtime, serverTimeOffset,
                             loops[i].release.LastModifiedEpochMs)
                  THEN [at EXCEPT ![i].pc = "return", ![i].outcome = "current"]
                  ELSE [at EXCEPT ![i].pc = "rmtmp",
                                  ![i].trace = at[i].trace \o <<"stale">>]
     \/ loops' = Return(i, "statfail")
  /\ LoopFrame /\ UNCHANGED <<files, hist>>

\* downloadURL := u.resolveURL(release.DownloadURL); os.Remove(tmpPath).
RemoveTmp(i) ==
  /\ Step(i, "rmtmp")
  /\ tmp' = NoFile
  /\ loops' = [Goto(i, "download", <<>>) EXCEPT
                 ![i].downloadURL = resolveURL(apiRoot, loops[i].release.DownloadURL)]
  /\ LoopFrame /\ UNCHANGED <<exe, bak, hist>>

\* u.download(downloadURL, tmpPath): an error before the file is created, or
\* the body written to the staging file (io.Copy's error is not looked at).
Download(i) ==
  /\ Step(i, "download")
  /\ \/ /\ loops' = Abort(i, "dlfail", <<"downloadReq">>)
        /\ UNCHANGED tmp
     \/ \E body \in Bodies, now \in NowValues :
          /\ tmp' = File(body, IF tmp.exists THEN tmp.mode ELSE CreateMode, now)
          /\ loops' = [Goto(i, "hash", <<"downloadReq", "downloaded">>)
                         EXCEPT ![i].got = body]
  /\ LoopFrame /\ UNCHANGED <<exe, bak, hist>>

\* sha256Hash, err := calculateSHA256(tmpPath); the strings.EqualFold test.
Hash(i) ==
  /\ Step(i, "hash")
  /\ \/ /\ tmp.exists
        /\ LET h == Digest(tmp.content)
           IN loops' =
                IF EqualFold(loops[i].release.SHA256, h)
                  THEN [Goto(i, "verify", <<"digestEq">>) EXCEPT ![i].sha256Hash = h]
                  ELSE [Abort(i, "mismatch", <<>>) EXCEPT ![i].sha256Hash = h]
     \/ loops' = Abort(i, "hashfail", <<>>)
  /\ LoopFrame /\ UNCHANGED <<files, hist>>

\* if !u.verify(sha256Hash)
Verify(i) ==
  /\ Step(i, "verify")
  /\ \E body \in VerifyBodies :
       loops' = IF verify(body)
                  THEN [Goto(i, "rmbak", <<"verifyReq", "attested">>)
                          EXCEPT ![i].attest = body]
                  ELSE [Abort(i, "rejected", <<"verifyReq">>)
                          EXCEPT ![i].attest = body]
  /\ LoopFrame /\ UNCHANGED <<files, hist>>

\* A return that leaves the staging file behind.
Cleanup_KeepStaging(i) ==
  /\ Step(i, "cleanup")
  /\ loops' = Goto(i, "return", <<>>)
  /\ LoopFrame /\ UNCHANGED <<files, hist>>

\* os.Remove(tmpPath); return
Cleanup(i) ==
  /\ Step(i, "cleanup")
  /\ tmp' = NoFile
  /\ loops' = Goto(i, "return", <<>>)
  /\ LoopFrame /\ UNCHANGED <<exe, bak, hist>>

\* A loop that gives up after a tick that failed.
EndTick_FailureEndsLoop(i) ==
  /\ Step(i, "return")
  /\ loops' = [loops EXCEPT ![i] =
                 [NoLoop EXCEPT !.pc = IF loops[i].outcome \in {"current", "nodigest"}
                                         THEN "select" ELSE "returned",
                               !.tickC = loops[i].tickC]]
  /\ LoopFrame /\ UNCHANGED <<files, hist>>

\* checkAndUpdate returns: its locals are gone and the loop is at its select.
EndTick(i) ==
  /\ Step(i, "return")
  /\ loops' = [loops EXCEPT ![i] =
                 [NoLoop EXCEPT !.pc = "select", !.tickC = loops[i].tickC]]
  /\ LoopFrame /\ UNCHANGED <<files, hist>>

\* os.Remove(backupPath)
RemoveBak(i) ==
  /\ Step(i, "rmbak")
  /\ bak' = NoFile
  /\ loops' = Goto(i, "rename1", <<>>)
  /\ LoopFrame /\ UNCHANGED <<exe, tmp, hist>>

\* os.Rename(selfPath, backupPath); its error is not looked at.
Rename1(i) ==
  /\ Step(i, "rename1")
  /\ \/ /\ exe.exists
        /\ bak' = exe
        /\ exe' = NoFile
        /\ loops' = Goto(i, "rename2", <<"backup">>)
     \/ /\ loops' = Goto(i, "rename2", <<>>)
        /\ UNCHANGED <<exe, bak>>
  /\ LoopFrame /\ UNCHANGED <<tmp, hist>>

\* os.Rename(tmpPath, selfPath); its error is not looked at.
Rename2(i) ==
  /\ Step(i, "rename2")
  /\ \/ /\ tmp.exists
        /\ exe' = tmp
        /\ tmp' = NoFile
        /\ loops' = Goto(i, "chmod", <<"install">>)
     \/ /\ loops' = Goto(i, "chmod", <<>>)
        /\ UNCHANGED <<exe, tmp>>
  /\ LoopFrame /\ UNCHANGED <<bak, hist>>

\* os.Chmod(selfPath, 0755); its error is not looked at.
Chmod(i) ==
  /\ Step(i, "chmod")
  /\ \/ /\ exe.exists
        /\ exe' = [exe EXCEPT !.mode = ExecMode]
        /\ loops' = Goto(i, "chtimes", <<"chmod">>)
     \/ /\ loops' = Goto(i, "chtimes", <<>>)
        /\ UNCHANGED exe
  /\ LoopFrame /\ UNCHANGED <<tmp, bak, hist>>

\* A Chtimes that sets the local time instead of the release's timestamp.
Chtimes_LocalTime(i) ==
  /\ Step(i, "chtimes")
  /\ \/ /\ exe.exists
        /\ \E now \in NowValues : exe' = [exe EXCEPT !.mtime = now]
        /\ loops' = Goto(i, "exit", <<"chtimes">>)
     \/ /\ loops' = Goto(i, "exit", <<>>)
        /\ UNCHANGED exe
  /\ LoopFrame /\ UNCHANGED <<tmp, bak, hist>>

\* os.Chtimes(selfPath, mtime, mtime); its error is ignored.
Chtimes(i) ==
  /\ Step(i, "chtimes")
  /\ \/ /\ exe.exists
        /\ exe' = [exe EXCEPT !.mtime = loops[i].release.LastModifiedEpochMs]
        /\ loops' = Goto(i, "exit", <<"chtimes">>)
     \/ /\ loops' = Goto(i, "exit", <<>>)
        /\ UNCHANGED exe
  /\ LoopFrame /\ UNCHANGED <<tmp, bak, hist>>

\* os.Exit(0)
Exit(i) ==
  /\ Step(i, "exit")
  /\ proc' = "exited"
  /\ loops' = Goto(i, "exited", <<>>)
  /\ installed' = IF Has(i, "install") /\ Has(i, "chtimes")
                    THEN loops[i].release ELSE NoRelease
  /\ UNCHANGED <<launches, startLimit, nloops, identity, config, startErr,
                 updater, timeQueried, files, tickAfterStop, call>>

checkAndUpdate(i) ==
  \/ Executable(i) \/ Fetch(i) \/ Stat(i) \/ RemoveTmp(i) \/ Download(i)
  \/ Hash(i) \/ Verify(i) \/ Cleanup(i) \/ RemoveBak(i) \/ Rename1(i)
  \/ Rename2(i) \/ Chmod(i) \/ Chtimes(i) \/ Exit(i) \/ EndTick(i)

loop(i) ==
  \/ NewTicker(i) \/ SelectTick(i) \/ SelectStop(i) \/ checkAndUpdate(i)

Next ==
  \/ Start
  \/ Stop
  \/ Relaunch
  \/ \E i \in Loops : TimerFire(i)
  \/ \E i \in Loops : loop(i)

\* The program as its documentation uses it: the host program calls Start
\* once in each run of the process.
Spec == Init /\ [][Next]_vars

\* The scheduling of the Go runtime: a goroutine that can take its next step
\* takes it, the ticker's timer keeps firing, and a select with a closed
\* stopChan, which chooses among its ready cases at random, does not choose
\* the ticker for ever.
Fairness ==
  \A i \in Loops :
     /\ WF_vars(loop(i))
     /\ WF_vars(TimerFire(i))
     /\ SF_vars(SelectStop(i))

\* One run of the process, from New to its end, under that scheduling.
NextRun ==
  \/ Start
  \/ Stop
  \/ \E i \in Loops : TimerFire(i)
  \/ \E i \in Loops : loop(i)

FairSpec == Init /\ [][NextRun]_vars /\ Fairness

\* The host program calls Start up to MaxLoops times in a run. The behaviours
\* explored are those in which no tick gets past the release query (a loop
\* that did is not scheduled again): each is a behaviour of the program, so
\* what is violated here is violated by the program.
InitStarts ==
  /\ proc = "running"
  /\ launches = 1
  /\ startLimit = MaxLoops
  /\ projectUUID \in IdValues
  /\ projectKey \in IdValues
  /\ startErr = FALSE
  /\ nloops = 0
  /\ running = FALSE
  /\ stopClosed = FALSE
  /\ serverTimeOffset = 0
  /\ loops = [i \in Loops |-> NoLoop]
  /\ exe = File("v1", ExecMode, 1)
  /\ tmp = NoFile
  /\ bak = NoFile
  /\ tickAfterStop = FALSE
  /\ installed = NoRelease
  /\ apiRoot = DefaultAPIRoot
  /\ updateInterval = DefaultInterval
  /\ timeQueried = FALSE
  /\ call = NoCall

NextStarts ==
  \/ Start
  \/ Stop
  \/ SetUpdateInterval
  \/ \E i \in Loops : TimerFire(i)
  \/ \E i \in Loops : NewTicker(i)
  \/ \E i \in Loops : SelectTick(i)
  \/ \E i \in Loops : SelectStop(i)
  \/ \E i \in Loops : Executable(i)
  \/ \E i \in Loops : Fetch(i)
  \/ \E i \in Loops : EndTick(i)

SpecStarts == InitStarts /\ [][NextStarts]_vars

\* The host program configures the API root and has locations resolved, in
\* any order and any number of times.
InitCalls ==
  /\ proc = "running"
  /\ launches = 1
  /\ startLimit = 1
  /\ projectUUID = "id"
  /\ projectKey = "id"
  /\ startErr = FALSE
  /\ nloops = 0
  /\ running = FALSE
  /\ stopClosed = FALSE
  /\ serverTimeOffset = 0
  /\ loops = [i \in Loops |-> NoLoop]
  /\ exe = File("v1", ExecMode, 1)
  /\ tmp = NoFile
  /\ bak = NoFile
  /\ tickAfterStop = FALSE
  /\ installed = NoRelease
  /\ apiRoot = DefaultAPIRoot
  /\ updateInterval = DefaultInterval
  /\ timeQueried = FALSE
  /\ call = NoCall

NextCalls ==
  \/ SetAPIRoot
  \/ CallResolveURL

SpecCalls == InitCalls /\ [][NextCalls]_vars

\* The host program sets the interval and calls SyncTime, in any order and any
\* number of times.
NextSync ==
  \/ CallSyncTime
  \/ SetUpdateInterval

SpecSync == Init /\ [][NextSync]_vars

\* ------------------------------------------------------------------- claims
\* What the claims say, stated without the code's own tests.
AtReturn(i) == loops[i].pc = "return"
AtExit(i) == loops[i].pc = "exited"
ExeEvents == {"backup", "install", "chmod", "chtimes"}
ExeModified(i) ==
  \E k \in 1..Len(loops[i].trace) : loops[i].trace[k] \in ExeEvents
Verified ==
  <<"fetched", "stat", "stale", "downloadReq", "downloaded", "digestEq",
    "verifyReq", "attested">>
FoldEq(s, t) == [k \in 1..Len(s) |-> ToLower(s[k])] = [k \in 1..Len(t) |-> ToLower(t[k])]
Affirmative(body) ==
  \E k \in 1..Len(body) :
     /\ body[k] = "\"ok\""
     /\ \/ SubSeq(body, k + 1, k + 2) = <<":", "true">>
        \/ SubSeq(body, k + 1, k + 3) = <<":", " ", "true">>
DigestDiffers(i) ==
  /\ Has(i, "downloaded")
  /\ loops[i].sha256Hash # <<>>
  /\ ~FoldEq(loops[i].release.SHA256, loops[i].sha256Hash)
Rejected(i) ==
  /\ Has(i, "downloaded")
  /\ Has(i, "verifyReq")
  /\ ~Affirmative(loops[i].attest)
InstallSucceeded(i) ==
  Has(i, "backup") /\ Has(i, "install") /\ Has(i, "chmod") /\ Has(i, "chtimes")

\* C1: in every tick the executable path is modified (backup rename, staging
\* rename, chmod, chtimes) only after, in this order, a valid descriptor with
\* a non-empty digest was fetched, the staleness test found adjusted mtime
\* below the release timestamp, the download succeeded, the digest of the
\* staging file equalled the descriptor's digest up to case, and the
\* attestation check answered affirmatively.
C1_ModifiedOnlyAfterVerified ==
  \A i \in Loops :
    ExeModified(i) =>
      /\ Len(loops[i].trace) > Len(Verified)
      /\ SubSeq(loops[i].trace, 1, Len(Verified)) = Verified
      /\ loops[i].release.LastModifiedEpochMs > 0
      /\ loops[i].release.DownloadURL # <<>>
      /\ loops[i].release.SHA256 # <<>>
      /\ loops[i].adjustedMtime < loops[i].release.LastModifiedEpochMs
      /\ FoldEq(loops[i].release.SHA256, Digest(loops[i].got))
      /\ loops[i].sha256Hash = Digest(loops[i].got)
      /\ Affirmative(loops[i].attest)

\* C1's case: a tick has renamed the staging file over the executable, with a
\* descriptor whose digest is written in upper case.
C1_Witness ==
  \E i \in Loops :
    /\ Has(i, "install")
    /\ loops[i].release.SHA256 = <<"B", "2">>

\* C2: when a tick ends, the executable path holds the complete old binary
\* and the process keeps running, or the complete verified new binary and
\* the process has exited; never is the path missing.
C2_AtomicReplace ==
  \A i \in Loops :
    /\ AtReturn(i) => exe = loops[i].entry[1]
    /\ AtExit(i) => exe.exists /\ exe.content = loops[i].got

\* C3: no sequence of Start and Stop calls closes the stop channel twice; a
\* second Stop does not panic.
C3_StopTwiceNoPanic == proc # "panicked"

\* C4: after Stop has returned, checkAndUpdate is never entered.
C4_NoTickAfterStop == ~tickAfterStop

\* C5: at most one background loop exists and at most one checkAndUpdate is
\* in progress, whatever the sequence of public operations.
C5_OneLoopOneTick ==
  /\ Cardinality({i \in Loops : Alive(i)}) <= 1
  /\ Cardinality({i \in Loops : InTick(i)}) <= 1

\* C6: after an install of release R that set the executable's modification
\* time to R's timestamp, a tick that receives R again judges the binary
\* current and downloads nothing, whatever the clock offset.
C6_InstalledIsCurrent ==
  \A i \in Loops :
    ( /\ proc = "running"
      /\ installed # NoRelease
      /\ loops[i].release = installed
      /\ loops[i].entry[1].mtime = installed.LastModifiedEpochMs
      /\ Has(i, "stat") )
    => ~Has(i, "stale") /\ ~Has(i, "downloadReq")

\* C7: a tick whose descriptor is valid and whose adjusted mtime is at or
\* above the release timestamp issues no download request and no attestation
\* request and leaves the executable, the staging file and the backup file
\* as they were.
C7_CurrentIsNoOp ==
  \A i \in Loops :
    ( /\ Has(i, "stat")
      /\ loops[i].release.LastModifiedEpochMs > 0
      /\ loops[i].release.DownloadURL # <<>>
      /\ loops[i].adjustedMtime >= loops[i].release.LastModifiedEpochMs )
    => /\ ~Has(i, "downloadReq")
       /\ ~Has(i, "verifyReq")
       /\ <<exe, tmp, bak>> = loops[i].entry
       /\ loops[i].pc \in {"return", "select"}

\* C7's case: a tick ended as current, on the boundary (adjusted mtime equal
\* to the release timestamp), with a stale staging file lying around.
C7_Witness ==
  \E i \in Loops :
    /\ AtReturn(i)
    /\ Has(i, "stat")
    /\ loops[i].adjustedMtime = loops[i].release.LastModifiedEpochMs
    /\ tmp.exists

C9_InstallResult ==
  \A i \in Loops :
    (AtExit(i) /\ InstallSucceeded(i)) =>
      /\ bak.exists
      /\ bak.content = loops[i].entry[1].content
      /\ exe.exists
      /\ exe.content = loops[i].got
      /\ ~tmp.exists
      /\ exe.mode = ExecMode
      /\ exe.mtime = loops[i].release.LastModifiedEpochMs

\* C9's case: an install succeeded where an earlier backup file existed.
C9_Witness ==
  \E i \in Loops :
    /\ AtExit(i) /\ InstallSucceeded(i)
    /\ loops[i].entry[3].exists
    /\ proc = "exited"

\* C10: after a tick that ended in a failure (release query, missing digest,
\* stat, download, hash, digest mismatch, attestation, or a failed rename
\* during install) no staging file exists.
C10_NoStagingAfterFailure ==
  \A i \in Loops :
    ( \/ AtReturn(i) /\ loops[i].outcome # "current"
      \/ AtExit(i) /\ ~Has(i, "install") )
    => ~tmp.exists

\* C11: a tick whose release query was answered with a descriptor that has an
\* empty digest, whatever its timestamp and location, is over at once: it
\* sent no download and no verify request and the executable, the staging
\* file and the backup are as they were when the tick began.
C11_EmptyDigestAborts ==
  \A i \in Loops :
     (loops[i].answer.ok /\ loops[i].answer.info.SHA256 = <<>>) =>
        /\ AtReturn(i)
        /\ ~Has(i, "downloadReq") /\ ~Has(i, "verifyReq")
        /\ <<exe, tmp, bak>> = loops[i].entry

\* C11 witness: a tick ended on a descriptor that is otherwise valid and newer
\* than the executable, but has no digest.
C11_Witness ==
  \E i \in Loops :
     /\ AtReturn(i)
     /\ loops[i].answer.ok /\ loops[i].answer.info.SHA256 = <<>>
     /\ loops[i].answer.info.LastModifiedEpochMs = MaxTs
     /\ loops[i].answer.info.DownloadURL # <<>>

\* C12: the clock offset is 0 until SyncTime is called; a call whose time
\* query yields a positive value sets it to that value minus the local time,
\* and a call whose query fails or yields a value that is not positive leaves
\* it as it was.
C12_SyncTimeOnlyPositive ==
  /\ call.op = "none" => serverTimeOffset = 0
  /\ call.op = "SyncTime" =>
       serverTimeOffset = IF call.arg[1] > 0 THEN call.arg[1] - call.arg[2]
                                             ELSE call.was[1]

\* C12 witness: a SyncTime whose query failed kept an offset that an earlier
\* call had set to a value other than 0.
C12_Witness ==
  /\ call.op = "SyncTime"
  /\ call.arg[1] <= 0
  /\ call.was[1] # 0
  /\ serverTimeOffset = call.was[1]

\* C13: with an empty project UUID or an empty project key, Start returns an
\* error and changes nothing: no time query is sent, the clock offset and the
\* running flag are as New left them and no background loop exists.
C13_IncompleteIdentityStartsNothing ==
  (projectUUID = "" \/ projectKey = "") =>
     /\ ~timeQueried
     /\ serverTimeOffset = 0
     /\ ~running
     /\ nloops = 0
     /\ \A i \in Loops : loops[i] = NoLoop

\* C13 witness: Start was called with a UUID but no key and returned its error.
C13_Witness ==
  /\ projectUUID # "" /\ projectKey = ""
  /\ startErr
  /\ nloops = 0

\* C14: resolveURL returns a location that begins with "http://" or
\* "https://" as it is, and for a location L that begins with "/" it returns
\* the configured API root followed by L; so it is for every API root, the
\* one New sets included.
C14_ResolveURL ==
  call.op = "resolveURL" =>
     LET L == call.arg
         absolute == /\ Len(L) >= 3
                     /\ L[1] \in {"http:", "https:"}
                     /\ L[2] = "/" /\ L[3] = "/"
     IN /\ absolute => call.result = L
        /\ (~absolute /\ Len(L) >= 1 /\ L[1] = "/") => call.result = call.was \o L

\* C14 witness: a root-relative location was resolved against the API root
\* that New sets.
C14_Witness ==
  /\ call.op = "resolveURL"
  /\ call.was = DefaultAPIRoot
  /\ call.arg = <<"/", "api">>
  /\ call.result = DefaultAPIRoot \o <<"/", "api">>

\* C15: after SetAPIRoot the stored API root ends neither with "/" nor with
\* "/api", whatever the argument was.
C15_RootNormalized ==
  call.op = "SetAPIRoot" =>
     /\ ~(Len(apiRoot) >= 1 /\ apiRoot[Len(apiRoot)] = "/")
     /\ ~(Len(apiRoot) >= 2 /\ apiRoot[Len(apiRoot)] = "api"
                            /\ apiRoot[Len(apiRoot) - 1] = "/")

\* C16: a tick in which the rename of the executable to the backup path
\* failed ends there: the staging file is not renamed over the executable
\* path, no chmod and no chtimes is applied, the process does not exit and
\* the old binary is still at the executable path.
C16_BackupFailureAborts ==
  \A i \in Loops :
     (loops[i].pc \in {"rename2", "chmod", "chtimes", "exit", "exited", "return"}
        /\ Has(i, "verifyReq") /\ Has(i, "attested") /\ ~Has(i, "backup")) =>
        /\ ~Has(i, "install") /\ ~Has(i, "chmod") /\ ~Has(i, "chtimes")
        /\ ~AtExit(i)
        /\ exe = loops[i].entry[1]

\* C17: a tick that ended without an install, while Stop was not called, is
\* followed by a further tick unless Stop is called first; and a loop ends
\* only at its select with the stop channel closed or with the process exit
\* that ends an install.
C17_FailureDoesNotStopScheduler ==
  /\ \A i \in Loops :
        (AtReturn(i) /\ ~stopClosed) ~> (loops[i].pc = "executable" \/ stopClosed)
  /\ [][\A i \in Loops :
          (Alive(i) /\ loops'[i].pc \in {"returned", "exited", "crashed"}) =>
             \/ loops'[i].pc = "returned" /\ loops[i].pc = "select" /\ stopClosed
             \/ loops'[i].pc = "exited" /\ loops[i].pc = "exit"
                                        /\ Has(i, "attested")]_vars

\* C17 witness: a tick ended on a failed download, the timer has fired again
\* and Stop was not called.
C17_Witness ==
  \E i \in Loops :
     /\ AtReturn(i) /\ loops[i].outcome = "dlfail"
     /\ loops[i].tickC
     /\ ~stopClosed

C19_RunningIffLiveLoop ==
  (proc = "running" /\ projectUUID # "" /\ projectKey # "") =>
     (running <=> (~stopClosed /\ \E i \in Loops : Alive(i)))

\* C20: whatever interval SetUpdateInterval stored before Start, the loop
\* that Start spawned does not panic in time.NewTicker (a loop that panicked
\* found an interval that was set after Start).
C20_NoIntervalPanics ==
  \A i \in Loops :
     loops[i].pc = "crashed" => loops[i].startInterval # updateInterval

====
